---- MODULE Spec2Model ----
(***************************************************************************)
(* Model of the runbook question-answering assistant: the guardrail chain  *)
(* (guardrails.py), the vector index wrapper (vector_store.py) and the     *)
(* orchestrator (app.py).  Strings are sequences of one-character strings, *)
(* so that regular expressions, lower-casing and splitting are computed    *)
(* character by character as the Python code computes them.                *)
(***************************************************************************)
EXTENDS Integers, Sequences, FiniteSets, TLC

(***************************************************************************)
(* Bounds of the model.                                                    *)
(***************************************************************************)
MaxFrags == 3        \* fragments concatenated into one query
MaxPadFrags == 2     \* fragments that follow the filler of a long query
MaxOutFrags == 3     \* fragments concatenated into one answer
MaxUpload == 3       \* files in one upload
MaxStored == 2       \* records in the persistent collection
MaxHistory == 1      \* chat turns appended in one session
MaxBatch == 2        \* chunks in one batch, and records a caller's index holds
PadLen == 1995       \* filler characters put in front of a long query

(***************************************************************************)
(* Characters and strings.                                                 *)
(***************************************************************************)
Min(S) == CHOOSE x \in S : \A y \in S : x <= y

\* str.lower() on the ASCII letters
UpperCase ==
  <<"A","B","C","D","E","F","G","H","I","J","K","L","M","N","O","P","Q","R","S","T","U","V","W","X","Y","Z">>
LowerCase ==
  <<"a","b","c","d","e","f","g","h","i","j","k","l","m","n","o","p","q","r","s","t","u","v","w","x","y","z">>

ToLower == [c \in {UpperCase[i] : i \in 1..26} |->
              LowerCase[CHOOSE i \in 1..26 : UpperCase[i] = c]]

Lower(c) == IF c \in DOMAIN ToLower THEN ToLower[c] ELSE c

LowerStr(s) == [i \in 1..Len(s) |-> Lower(s[i])]

\* the characters matched by \s and removed by str.strip() / str.split()
IsSpace(c) == c \in {" ", "\t", "\n", "\r", "\f"}

\* w occurs in s at position i, compared exactly
MatchWord(s, i, w) ==
  /\ i >= 1
  /\ i + Len(w) - 1 <= Len(s)
  /\ \A k \in 1..Len(w) : s[i + k - 1] = w[k]

\* w (lower case) occurs in s at position i under re.IGNORECASE
MatchWordCI(s, i, w) ==
  /\ i >= 1
  /\ i + Len(w) - 1 <= Len(s)
  /\ \A k \in 1..Len(w) : Lower(s[i + k - 1]) = w[k]

\* Python's  w in s
IsIn(w, s) == \E i \in 1..(Len(s) - Len(w) + 1) : MatchWord(s, i, w)

\* no character of s[a..b] is a newline ('.' does not match a newline)
NoNewline(s, a, b) == \A k \in a..b : s[k] # "\n"

\* the index after the run of whitespace that starts at i
RECURSIVE SkipSpace(_, _)
SkipSpace(s, i) ==
  IF i <= Len(s) /\ IsSpace(s[i]) THEN SkipSpace(s, i + 1) ELSE i

RECURSIVE Flatten(_)
Flatten(ss) == IF ss = <<>> THEN <<>> ELSE Head(ss) \o Flatten(Tail(ss))

(***************************************************************************)
(* guardrails.py: the input validators.                                    *)
(***************************************************************************)
MAX_QUERY_LENGTH == 2000

ScriptOpen == <<"<","s","c","r","i","p","t">>
ScriptClose == <<"<","/","s","c","r","i","p","t",">">>

SqlVerbs ==
  << <<"u","n","i","o","n">>, <<"s","e","l","e","c","t">>,
     <<"d","r","o","p">>, <<"d","e","l","e","t","e">>,
     <<"i","n","s","e","r","t">>, <<"u","p","d","a","t","e">> >>

ExecCalls ==
  << <<"e","v","a","l">>, <<"e","x","e","c">>,
     <<"s","y","s","t","e","m">>,
     <<"s","h","e","l","l","_","e","x","e","c">> >>

harmful_keywords ==
  << <<"p","a","s","s","w","o","r","d">>, <<"s","e","c","r","e","t">>,
     <<"p","r","i","v","a","t","e"," ","k","e","y">>,
     <<"c","o","n","f","i","d","e","n","t","i","a","l">>,
     <<"h","a","c","k">>, <<"e","x","p","l","o","i","t">>,
     <<"m","a","l","w","a","r","e">>, <<"v","i","r","u","s">> >>

\* Each MatchEndN(s, i) is the index of the last character of the match of
\* pattern N that starts at i, or 0 when the pattern does not match at i.

\* r'<script.*?>.*?</script>'  (both quantifiers lazy)
CloseAfter(s, j) ==
  {k \in (j + 1)..(Len(s) - 8) :
     MatchWordCI(s, k, ScriptClose) /\ NoNewline(s, j + 1, k - 1)}

MatchEnd1(s, i) ==
  IF ~MatchWordCI(s, i, ScriptOpen) THEN 0
  ELSE LET gts == {j \in (i + 7)..Len(s) :
                     /\ s[j] = ">"
                     /\ NoNewline(s, i + 7, j - 1)
                     /\ CloseAfter(s, j) # {}}
       IN IF gts = {} THEN 0 ELSE Min(CloseAfter(s, Min(gts))) + 8

\* r'(union|select|drop|delete|insert|update)\s+'
MatchEnd2(s, i) ==
  LET vs == {v \in 1..Len(SqlVerbs) : MatchWordCI(s, i, SqlVerbs[v])}
  IN IF vs = {} THEN 0
     ELSE LET e == i + Len(SqlVerbs[Min(vs)])
          IN IF e <= Len(s) /\ IsSpace(s[e]) THEN SkipSpace(s, e) - 1 ELSE 0

\* r'(eval|exec|system|shell_exec)\s*\('
MatchEnd3(s, i) ==
  LET vs == {v \in 1..Len(ExecCalls) : MatchWordCI(s, i, ExecCalls[v])}
  IN IF vs = {} THEN 0
     ELSE LET e == SkipSpace(s, i + Len(ExecCalls[Min(vs)]))
          IN IF e <= Len(s) /\ s[e] = "(" THEN e ELSE 0

MatchEnd(p, s, i) ==
  CASE p = 1 -> MatchEnd1(s, i)
    [] p = 2 -> MatchEnd2(s, i)
    [] p = 3 -> MatchEnd3(s, i)

\* re.sub(pattern, '', s): the leftmost match from position from on is
\* removed and the scan resumes after it
\* the characters a match of pattern p can start with
FirstChars(p) ==
  CASE p = 1 -> {"<"}
    [] p = 2 -> {"u", "s", "d", "i"}
    [] p = 3 -> {"e", "s"}

RECURSIVE ReSub(_, _, _)
ReSub(p, s, from) ==
  LET starts == {i \in from..Len(s) :
                   Lower(s[i]) \in FirstChars(p) /\ MatchEnd(p, s, i) > 0}
  IN IF starts = {} THEN SubSeq(s, from, Len(s))
     ELSE LET i == Min(starts)
          IN SubSeq(s, from, i - 1) \o ReSub(p, s, MatchEnd(p, s, i) + 1)

check_injection_patterns(query) == ReSub(3, ReSub(2, ReSub(1, query, 1), 1), 1)

\* TRUE when the check passes, FALSE when it raises "Query too long"
validate_input_length(query) == ~(Len(query) > MAX_QUERY_LENGTH)

\* the first keyword of the denylist found in query.lower(), 0 when none
validate_content_safety(query) ==
  LET query_lower == LowerStr(query)
      hits == {k \in 1..Len(harmful_keywords) :
                 IsIn(harmful_keywords[k], query_lower)}
  IN IF hits = {} THEN 0 ELSE Min(hits)

\* TRUE when the check passes, FALSE when it raises "No documents available"
check_document_context(available_docs) == available_docs # <<>>

\* context.get('documents', []) if context else []
ContextDocuments(context) ==
  IF context.none \/ DOMAIN context.dict = {} THEN <<>>
  ELSE IF "documents" \in DOMAIN context.dict THEN context.dict["documents"]
  ELSE <<>>

Raised(kind, detail) == [kind |-> kind, value |-> detail]
Returned(value) == [kind |-> "ok", value |-> value]

\* validate_input with the length measured after the sanitizer has run
validate_input_LengthAfterSanitizer(query, context) ==
  LET cleaned == check_injection_patterns(query)
      hit == validate_content_safety(cleaned)
  IN IF ~validate_input_length(cleaned) THEN Raised("QueryTooLong", <<>>)
     ELSE IF hit # 0 THEN Raised("UnsafeContent", harmful_keywords[hit])
     ELSE IF ~check_document_context(ContextDocuments(context))
          THEN Raised("NoDocumentsAvailable", <<>>)
     ELSE Returned(cleaned)

\* validate_input with the content-safety check applied to the raw query
validate_input_SafetyOnRaw(query, context) ==
  IF ~validate_input_length(query) THEN Raised("QueryTooLong", <<>>)
  ELSE LET cleaned == check_injection_patterns(query)
           hit == validate_content_safety(query)
       IN IF hit # 0 THEN Raised("UnsafeContent", harmful_keywords[hit])
          ELSE IF ~check_document_context(ContextDocuments(context))
               THEN Raised("NoDocumentsAvailable", <<>>)
          ELSE Returned(cleaned)

\* validate_input with the context-availability check before the
\* content-safety check
validate_input_ContextBeforeSafety(query, context) ==
  IF ~validate_input_length(query) THEN Raised("QueryTooLong", <<>>)
  ELSE LET cleaned == check_injection_patterns(query)
           hit == validate_content_safety(cleaned)
       IN IF ~check_document_context(ContextDocuments(context))
          THEN Raised("NoDocumentsAvailable", <<>>)
          ELSE IF hit # 0 THEN Raised("UnsafeContent", harmful_keywords[hit])
          ELSE Returned(cleaned)

\* validate_input returning the query it was given
validate_input_ReturnsRaw(query, context) ==
  IF ~validate_input_length(query) THEN Raised("QueryTooLong", <<>>)
  ELSE LET cleaned == check_injection_patterns(query)
           hit == validate_content_safety(cleaned)
       IN IF hit # 0 THEN Raised("UnsafeContent", harmful_keywords[hit])
          ELSE IF ~check_document_context(ContextDocuments(context))
               THEN Raised("NoDocumentsAvailable", <<>>)
          ELSE Returned(query)

validate_input(query, context) ==
  IF ~validate_input_length(query) THEN Raised("QueryTooLong", <<>>)
  ELSE LET cleaned == check_injection_patterns(query)
           hit == validate_content_safety(cleaned)
       IN IF hit # 0 THEN Raised("UnsafeContent", harmful_keywords[hit])
          ELSE IF ~check_document_context(ContextDocuments(context))
               THEN Raised("NoDocumentsAvailable", <<>>)
          ELSE Returned(cleaned)

(***************************************************************************)
(* guardrails.py: the output validators.                                   *)
(***************************************************************************)
\* set(s.split()): the maximal runs of non-whitespace characters of s
SplitWords(s) ==
  {SubSeq(s, a, b) : <<a, b>> \in
     {ab \in (1..Len(s)) \X (1..Len(s)) :
        /\ ab[1] <= ab[2]
        /\ \A k \in ab[1]..ab[2] : ~IsSpace(s[k])
        /\ ab[1] = 1 \/ IsSpace(s[ab[1] - 1])
        /\ ab[2] = Len(s) \/ IsSpace(s[ab[2] + 1])}}

\* str.strip()
RECURSIVE Strip(_)
Strip(s) ==
  IF s = <<>> THEN s
  ELSE IF IsSpace(Head(s)) THEN Strip(Tail(s))
  ELSE IF IsSpace(s[Len(s)]) THEN Strip(SubSeq(s, 1, Len(s) - 1))
  ELSE s

validate_response_accuracy(response, sources) ==
  IF sources = <<>> THEN FALSE
  ELSE LET source_keywords == UNION {SplitWords(sources[i]) : i \in 1..Len(sources)}
           response_words == SplitWords(LowerStr(response))
           overlap == Cardinality(source_keywords \cap response_words)
       IN IF Cardinality(response_words) > 0
          THEN 10 * overlap >= Cardinality(response_words)
          ELSE FALSE

check_hallucination(response, sources) == validate_response_accuracy(response, sources)

verify_source_grounding(response, sources) == validate_response_accuracy(response, sources)

\* [\w\-. ]
WordChars ==
  {"a","b","c","d","e","f","g","h","i","j","k","l","m","n","o","p","q","r",
   "s","t","u","v","w","x","y","z","A","B","C","D","E","F","G","H","I","J",
   "K","L","M","N","O","P","Q","R","S","T","U","V","W","X","Y","Z","0","1",
   "2","3","4","5","6","7","8","9","_"}

IsRefChar(c) == c \in WordChars \cup {"-", ".", " "}

\* re.match(r'^[\w\-. ]+$', ref); '$' also matches before a final newline
RefPatternMatches(ref) ==
  LET body == IF ref # <<>> /\ ref[Len(ref)] = "\n"
              THEN SubSeq(ref, 1, Len(ref) - 1) ELSE ref
  IN body # <<>> /\ \A k \in 1..Len(body) : IsRefChar(body[k])

\* path.split('/')
RECURSIVE SplitSlash(_)
SplitSlash(path) ==
  LET cuts == {k \in 1..Len(path) : path[k] = "/"}
  IN IF cuts = {} THEN <<path>>
     ELSE <<SubSeq(path, 1, Min(cuts) - 1)>>
            \o SplitSlash(SubSeq(path, Min(cuts) + 1, Len(path)))

DotDot == <<".", ".">>

\* the component loop of posixpath.normpath
RECURSIVE NormComps(_, _, _)
NormComps(comps, new_comps, initial_slashes) ==
  IF comps = <<>> THEN new_comps
  ELSE LET comp == Head(comps)
       IN IF comp \in {<<>>, <<".">>}
          THEN NormComps(Tail(comps), new_comps, initial_slashes)
          ELSE IF \/ comp # DotDot
                  \/ (initial_slashes = 0 /\ new_comps = <<>>)
                  \/ (new_comps # <<>> /\ new_comps[Len(new_comps)] = DotDot)
          THEN NormComps(Tail(comps), Append(new_comps, comp), initial_slashes)
          ELSE IF new_comps # <<>>
          THEN NormComps(Tail(comps), SubSeq(new_comps, 1, Len(new_comps) - 1),
                         initial_slashes)
          ELSE NormComps(Tail(comps), new_comps, initial_slashes)

\* '/'.join(comps)
RECURSIVE JoinSlash(_)
JoinSlash(comps) ==
  IF comps = <<>> THEN <<>>
  ELSE IF Len(comps) = 1 THEN comps[1]
  ELSE comps[1] \o <<"/">> \o JoinSlash(Tail(comps))

\* os.path.normpath (POSIX)
normpath(path) ==
  IF path = <<>> THEN <<".">>
  ELSE LET initial_slashes ==
             IF path[1] # "/" THEN 0
             ELSE IF MatchWord(path, 1, <<"/", "/">>)
                     /\ ~MatchWord(path, 1, <<"/", "/", "/">>) THEN 2
             ELSE 1
           joined == JoinSlash(NormComps(SplitSlash(path), <<>>, initial_slashes))
           result == [i \in 1..initial_slashes |-> "/"] \o joined
       IN IF result = <<>> THEN <<".">> ELSE result

\* os.path.isabs (POSIX)
isabs(path) == path # <<>> /\ path[1] = "/"

\* the sanitized reference, or Raised(...) when the reference is rejected
validate_metadata_reference(ref) ==
  IF ~RefPatternMatches(ref) THEN Raised("InvalidReference", <<>>)
  ELSE LET normalized_ref == normpath(ref)
       IN IF MatchWord(normalized_ref, 1, DotDot) \/ isabs(normalized_ref)
          THEN Raised("PathTraversal", <<>>)
          ELSE Returned(normalized_ref)

validate_output_references(response_references, valid_refs) ==
  \A i \in 1..Len(response_references) :
    LET sanitized_ref == validate_metadata_reference(response_references[i])
    IN /\ sanitized_ref.kind = "ok"
       /\ \E j \in 1..Len(valid_refs) : valid_refs[j] = sanitized_ref.value

ImageTag == <<"[","I","m","a","g","e",":">>
TableTag == <<"[","T","a","b","l","e",":">>

\* r'\[Image:\s*([^\]]+)\]|\[Table:\s*([^\]]+)\]' at position i: the index
\* of the closing bracket of the match, or 0
RefMatchEnd(s, i) ==
  IF ~(MatchWord(s, i, ImageTag) \/ MatchWord(s, i, TableTag)) THEN 0
  ELSE LET closes == {j \in (i + 7)..Len(s) : s[j] = "]"}
       IN IF closes = {} \/ Min(closes) = i + 7 THEN 0 ELSE Min(closes)

\* the captured group of the match at i, stripped
RefName(s, i) == Strip(SubSeq(s, i + 7, RefMatchEnd(s, i) - 1))

\* re.findall from position from on, each captured name stripped
RECURSIVE ExtractFrom(_, _)
ExtractFrom(s, from) ==
  LET starts == {i \in from..Len(s) : RefMatchEnd(s, i) > 0}
  IN IF starts = {} THEN <<>>
     ELSE <<RefName(s, Min(starts))>>
            \o ExtractFrom(s, RefMatchEnd(s, Min(starts)) + 1)

extract_references_from_response(response) == ExtractFrom(response, 1)

\* references is [none |-> TRUE] for the default None, else the list given
validate_output(response, sources, references) ==
  /\ validate_response_accuracy(response, sources)
  /\ check_hallucination(response, sources)
  /\ verify_source_grounding(response, sources)
  /\ IF ~references.none /\ references.list # <<>>
     THEN validate_output_references(
            extract_references_from_response(response), references.list)
     ELSE TRUE

(***************************************************************************)
(* Dictionaries (metadata) are functions from keys to values.              *)
(***************************************************************************)
Get(d, k, default) == IF k \in DOMAIN d THEN d[k] ELSE default

Without(d, k) == [x \in DOMAIN d \ {k} |-> d[x]]

With(d, k, v) == [x \in DOMAIN d \cup {k} |-> IF x = k THEN v ELSE d[x]]

\* a chunk's content is a string or, for a table, a list of rows of cells
StrContent(s) == [kind |-> "str", str |-> s, rows |-> <<>>]
RowsContent(rows) == [kind |-> "rows", str |-> <<>>, rows |-> rows]

\* sep.join(parts)
RECURSIVE Join(_, _)
Join(sep, parts) ==
  IF parts = <<>> THEN <<>>
  ELSE IF Len(parts) = 1 THEN parts[1]
  ELSE parts[1] \o sep \o Join(sep, Tail(parts))

Pipe == <<" ","|"," ">>
Newline == <<"\n">>

\* "\n".join([" | ".join(row) for row in content])
PipeRows(rows) == Join(Newline, [r \in 1..Len(rows) |-> Join(Pipe, rows[r])])

\* str(content) of a list of rows of cells
PyStr(rows) ==
  <<"[">> \o Join(<<",", " ">>,
    [r \in 1..Len(rows) |->
       <<"[">> \o Join(<<",", " ">>,
         [c \in 1..Len(rows[r]) |-> <<"'">> \o rows[r][c] \o <<"'">>]) \o <<"]">>])
  \o <<"]">>

(***************************************************************************)
(* document_processor.py: an uploaded file is given with what the PDF or   *)
(* Word extractor and the text splitter produce for it.                    *)
(***************************************************************************)
Pdf == <<"p","d","f">>
Docx == <<"d","o","c","x">>
Doc == <<"d","o","c">>

process_document(file, file_type) ==
  IF LowerStr(file_type) \notin {Pdf, Docx, Doc}
  THEN Raised("UnsupportedFormat", file_type)
  ELSE IF ~file.readable THEN Raised("ExtractionError", <<>>)
  ELSE Returned(
    [i \in 1..Len(file.images) |->
       [type |-> "image", content |-> StrContent(<<>>), metadata |-> file.images[i]]]
    \o [i \in 1..Len(file.tables) |->
       [type |-> "table", content |-> file.tables[i].content,
        metadata |-> file.tables[i]]]
    \o [i \in 1..Len(file.text_chunks) |->
       [type |-> "text", content |-> StrContent(file.text_chunks[i]),
        metadata |-> [chunk_id |-> i - 1]]])

(***************************************************************************)
(* vector_store.py                                                         *)
(***************************************************************************)
NoCaption == <<"N","o"," ","c","a","p","t","i","o","n">>

\* "[IMAGE] " or "[TABLE] " in front of the caption
TypeTag(chunk_type) ==
  IF chunk_type = "image" THEN <<"[","I","M","A","G","E","]"," ">> ELSE <<"[","T","A","B","L","E","]"," ">>

ContentString(content) == IF content.kind = "str" THEN content.str ELSE PyStr(content.rows)

\* variant: the keys of the input metadata win over the injected ones
StoredRecord_InputKeysWin(chunk, idx) ==
  LET chunk_type == chunk.type
      metadata == chunk.metadata
      content == chunk.content
      text_for_embedding ==
        IF chunk_type = "text" THEN content.str
        ELSE IF chunk_type \in {"image", "table"}
             THEN TypeTag(chunk_type) \o Get(metadata, "caption", NoCaption)
        ELSE ContentString(content)
      metadata_enhanced ==
        With(With(metadata, "chunk_type", Get(metadata, "chunk_type", chunk_type)),
             "chunk_index", Get(metadata, "chunk_index", idx))
      document ==
        IF chunk_type = "table" /\ content.kind = "rows"
        THEN PipeRows(content.rows)
        ELSE ContentString(content)
  IN [embedded |-> text_for_embedding, document |-> document,
      metadata |-> metadata_enhanced]

\* the record add_documents stores for the chunk at position idx
StoredRecord(chunk, idx) ==
  LET chunk_type == chunk.type
      metadata == chunk.metadata
      content == chunk.content
      text_for_embedding ==
        IF chunk_type = "text" THEN content.str
        ELSE IF chunk_type \in {"image", "table"}
             THEN TypeTag(chunk_type) \o Get(metadata, "caption", NoCaption)
        ELSE ContentString(content)
      metadata_enhanced == With(With(metadata, "chunk_type", chunk_type), "chunk_index", idx)
      document ==
        IF chunk_type = "table" /\ content.kind = "rows"
        THEN PipeRows(content.rows)
        ELSE ContentString(content)
  IN [embedded |-> text_for_embedding, document |-> document,
      metadata |-> metadata_enhanced]

\* The persistent collection is [exists, stored]; opened tells whether the
\* calling VectorStore instance already holds it in self.collection.
NoCollection == [exists |-> FALSE, stored |-> <<>>]

\* get_collection, or create_collection when it does not exist
create_collection(chroma) ==
  IF chroma.exists THEN chroma ELSE [exists |-> TRUE, stored |-> <<>>]

\* the collection after add_documents(chunks_with_meta)
add_documents(chroma, opened, chunks_with_meta) ==
  LET c == IF opened THEN chroma ELSE create_collection(chroma)
  IN [exists |-> c.exists,
      stored |-> c.stored \o [i \in 1..Len(chunks_with_meta) |->
                                StoredRecord(chunks_with_meta[i], i - 1)]]

\* the collection after clear_collection()
clear_collection(chroma, opened) ==
  IF opened THEN NoCollection ELSE chroma

Rankings(n) == {f \in [1..n -> 1..n] : \A i, j \in 1..n : f[i] = f[j] => i = j}

\* the collection after search_similar has opened it
search_similar(chroma, opened) == IF opened THEN chroma ELSE create_collection(chroma)

\* the results collection.query can return: the n_results records nearest
\* to the query, in an order fixed by the embedding model
QueryResults(stored, n_results) ==
  LET k == IF Len(stored) < n_results THEN Len(stored) ELSE n_results
  IN {[documents |-> << [i \in 1..k |-> stored[f[i]].document] >>,
       metadatas |-> << [i \in 1..k |-> stored[f[i]].metadata] >>] :
        f \in {SubSeq(g, 1, k) : g \in Rankings(Len(stored))}}

(***************************************************************************)
(* llm_manager.py: generate_response for each outcome of the HTTP call.    *)
(***************************************************************************)
\* A body that is not JSON makes response.json() raise: an error that
\* "except requests.RequestException" catches or not, with the version of
\* requests that is installed.  A JSON body that is not an object makes
\* json_resp.get raise AttributeError, which nothing in the function catches.
generate_response(backend) ==
  CASE backend.outcome = "ok" -> Returned(backend.text)
    [] backend.outcome = "no_response_field" -> Returned(<<"E","r","r","o","r",":"," ","N","o"," ","r","e","s","p","o","n","s","e"," ","f","i","e","l","d"," ","i","n"," ","A","P","I"," ","o","u","t","p","u","t">>)
    [] backend.outcome = "status" -> Returned(<<"E","r","r","o","r",":"," ","O","l","l","a","m","a"," ","r","e","t","u","r","n","e","d"," ","s","t","a","t","u","s"," ">> \o backend.text)
    [] backend.outcome \in {"unreachable", "timeout", "invalid_json_request_error"} ->
         Returned(<<"E","r","r","o","r",":"," ","U","n","a","b","l","e"," ","t","o"," ","c","o","n","n","e","c","t"," ","t","o"," ","O","l","l","a","m","a"," ","s","e","r","v","e","r"," ","-"," ">> \o backend.text)
    [] backend.outcome = "invalid_json" -> Raised("JSONDecodeError", <<>>)
    [] backend.outcome = "json_not_an_object" -> Raised("AttributeError", <<>>)

(***************************************************************************)
(* app.py: helpers of the upload and the question handlers.                *)
(***************************************************************************)
N_RESULTS == 5

\* the chunk document_upload_section builds from an extracted chunk
UploadChunk(chunk, file, file_type) ==
  LET cleaned == Without(chunk.metadata, "content")
      metadata == With(With(With(cleaned, "source", file.name),
                            "file_type", file_type), "chunk_type", chunk.type)
  IN [type |-> chunk.type, content |-> chunk.content, metadata |-> metadata]

\* file_type = Path(uploaded_file.name).suffix[1:].lower()
FileType(file) == LowerStr(Tail(file.suffix))

\* variant: the first file whose processing raises ends the batch
RECURSIVE CollectChunks_StopAtFailure(_)
CollectChunks_StopAtFailure(files) ==
  IF files = <<>> THEN <<>>
  ELSE LET file == Head(files)
           extracted == process_document(file, FileType(file))
       IN IF extracted.kind = "ok"
          THEN [i \in 1..Len(extracted.value) |->
                  UploadChunk(extracted.value[i], file, FileType(file))]
               \o CollectChunks_StopAtFailure(Tail(files))
          ELSE <<>>

\* all_chunks after the loop over the uploaded files
RECURSIVE CollectChunks(_)
CollectChunks(files) ==
  IF files = <<>> THEN <<>>
  ELSE LET file == Head(files)
           extracted == process_document(file, FileType(file))
       IN (IF extracted.kind = "ok"
           THEN [i \in 1..Len(extracted.value) |->
                   UploadChunk(extracted.value[i], file, FileType(file))]
           ELSE <<>>)
          \o CollectChunks(Tail(files))

\* retrieved_chunks built from zip(docs[0], metas[0])
RetrievedChunks(results) ==
  LET docs == results.documents[1]
      metas == results.metadatas[1]
      n == IF Len(docs) < Len(metas) THEN Len(docs) ELSE Len(metas)
  IN [i \in 1..n |->
        [type |-> Get(metas[i], "chunk_type", "text"),
         content |-> StrContent(docs[i]),
         metadata |-> metas[i]]]

ImageOmitted == <<" ","[","I","m","a","g","e"," ","o","m","i","t","t","e","d"," ","i","n"," ","p","r","o","m","p","t","]">>

\* what one retrieved chunk contributes to context_texts
ContextText(chunk) ==
  LET ctype == chunk.type
      caption == Get(chunk.metadata, "caption", <<>>)
  IN IF ctype = "text" THEN <<chunk.content.str>>
     ELSE IF ctype = "table"
          THEN IF chunk.content.kind = "rows"
               THEN <<caption \o Newline \o PipeRows(chunk.content.rows)>>
               ELSE <<caption>>
     ELSE IF ctype = "image" THEN <<caption \o ImageOmitted>>
     ELSE <<>>

RECURSIVE ContextTexts(_)
ContextTexts(chunks) ==
  IF chunks = <<>> THEN <<>>
  ELSE ContextText(Head(chunks)) \o ContextTexts(Tail(chunks))

\* "\n\n".join(context_texts)
ContextForLLM(context_texts) == Join(<<"\n", "\n">>, context_texts)

\* not docs or not metas
NoResults(results) == results.documents = <<>> \/ results.metadatas = <<>>

AnswerChunk(response) ==
  [type |-> "text", content |-> StrContent(response),
   metadata |-> [source |-> "LLM Answer"]]

ChatTurn(question, response, retrieved_chunks) ==
  [question |-> question,
   answer_chunks |-> <<AnswerChunk(response)>> \o retrieved_chunks]

(***************************************************************************)
(* Inputs of the input guardrails.                                         *)
(***************************************************************************)
Fragments ==
  << <<"a">>, <<"h","a","c","k">>, <<"H","a","c","K">>, <<"h","a">>,
     <<"c","k">>, <<"s","e","l","e","c","t"," ">>, <<"s","e","l">>,
     <<"e","c","t"," ">>, <<"<","s","c","r","i","p","t",">">>,
     <<"<","/","S","C","R","I","P","T",">">>, <<"e","x","e","c","(">> >>

FragSeqs(max) == UNION {[1..n -> 1..Len(Fragments)] : n \in 0..max}

Pad(n) == [i \in 1..n |-> "a"]

QueryOf(fs) == Flatten([i \in 1..Len(fs) |-> Fragments[fs[i]]])

ShortQueries == {QueryOf(fs) : fs \in FragSeqs(MaxFrags)}
LongQueries == {Pad(PadLen) \o QueryOf(fs) : fs \in FragSeqs(MaxPadFrags)}
Queries == ShortQueries \cup LongQueries

NoContext == [none |-> TRUE, dict |-> <<>>]
Contexts ==
  { NoContext,
    [none |-> FALSE, dict |-> <<>>],
    [none |-> FALSE, dict |-> [documents |-> <<>>]],
    [none |-> FALSE, dict |-> [documents |-> <<"available">>]] }

NotRun == [kind |-> "none", value |-> <<>>]

(***************************************************************************)
(* Inputs of the output guardrails.                                        *)
(***************************************************************************)
OutFragments ==
  << <<"r","e","s","t","a","r","t"," ">>,
     <<"R","e","s","t","a","r","t"," ">>,
     <<"f","o","o"," ">>,
     <<"[","I","m","a","g","e",":"," ","a",".","p","n","g","]"," ">>,
     <<"[","T","a","b","l","e",":",".",".","b","]"," ">>,
     <<"[","I","m","a","g","e",":"," ",".",".","/",".",".","/","e","t","c","/","p","a","s","s","w","d","]"," ">>,
     <<"[","T","a","b","l","e",":"," ","t","1"," ","]"," ">> >>

Responses ==
  {Flatten([i \in 1..Len(fs) |-> OutFragments[fs[i]]]) :
     fs \in UNION {[1..n -> 1..Len(OutFragments)] : n \in 0..MaxOutFrags}}

SourceLists ==
  { <<>>,
    << <<"r","e","s","t","a","r","t"," ","t","h","e">> >>,
    << <<"R","e","s","t","a","r","t">> >>,
    << <<"t","h","e"," ","s","e","r","v","i","c","e">>,
       <<"r","e","s","t","a","r","t"," ","n","o","w">> >> }

NoReferences == [none |-> TRUE, list |-> <<>>]
ReferenceLists ==
  { NoReferences,
    [none |-> FALSE, list |-> <<>>],
    [none |-> FALSE, list |-> << <<"a",".","p","n","g">> >>],
    [none |-> FALSE, list |-> << <<"a",".","p","n","g">>, <<".",".","b">>, <<"t","1">> >>] }

BoolResult(b) == IF b THEN "true" ELSE "false"

(***************************************************************************)
(* Inputs of the application: uploaded files, questions, backend outcomes. *)
(***************************************************************************)
Restart == <<"r","e","s","t","a","r","t">>

FileA ==
  [name |-> "a.pdf", suffix |-> <<".","p","d","f">>, readable |-> TRUE,
   text_chunks |-> << <<"r","e","s","t","a","r","t"," ","t","h","e"," ","s","e","r","v","i","c","e">> >>, images |-> <<>>, tables |-> <<>>]

FileB ==
  [name |-> "b.PDF", suffix |-> <<".","P","D","F">>, readable |-> TRUE,
   text_chunks |-> <<>>,
   images |-> << [type |-> "image", file |-> "images/pdf_page1_img1.png",
                  caption |-> <<"I","m","a","g","e"," ","o","n"," ","p","a","g","e"," ","1">>, page |-> 1] >>,
   tables |-> << [type |-> "table",
                  content |-> RowsContent(<< << <<"s","t","e","p">>, Restart >> >>),
                  caption |-> <<"T","a","b","l","e"," ","1"," ","o","n"," ","p","a","g","e"," ","1">>, page |-> 1] >>]

FileC ==
  [name |-> "c.docx", suffix |-> <<".","d","o","c","x">>, readable |-> FALSE,
   text_chunks |-> <<>>, images |-> <<>>, tables |-> <<>>]

FileD ==
  [name |-> "d.docx", suffix |-> <<".","d","o","c","x">>, readable |-> TRUE,
   text_chunks |-> <<>>, images |-> <<>>, tables |-> <<>>]

FileE ==
  [name |-> "e.docx", suffix |-> <<".","d","o","c","x">>, readable |-> TRUE,
   text_chunks |-> << <<"c","h","e","c","k"," ","t","h","e"," ","l","o","g","s">> >>, images |-> <<>>, tables |-> <<>>]

Files == {FileA, FileB, FileC, FileD, FileE}

\* the uploads of up to MaxUpload different files, in every order
Uploads ==
  {u \in UNION {[1..n -> Files] : n \in 1..MaxUpload} :
     \A i, j \in 1..Len(u) : u[i] = u[j] => i = j}

\* the uploads of a session in which questions are asked too
SessionUploads == {<<FileA>>, <<FileB>>, <<FileC>>, <<FileD>>}

LongQuery == Pad(PadLen) \o Restart

\* a question that the sanitizer changes and then passes, one with a
\* denylisted keyword, and one that is too long
AppQueries ==
  { <<"h","a","c","k">>, <<"s","e","l","e","c","t"," ","r","e","s","t","a","r","t">>, LongQuery }

Backends ==
  { [outcome |-> "ok", text |-> Restart],
    [outcome |-> "ok", text |-> <<"u","n","k","n","o","w","n">>],
    [outcome |-> "no_response_field", text |-> <<>>],
    [outcome |-> "status", text |-> <<"5","0","0">>],
    [outcome |-> "unreachable", text |-> <<"r","e","f","u","s","e","d">>],
    [outcome |-> "timeout", text |-> <<"t","i","m","e","d"," ","o","u","t">>],
    [outcome |-> "invalid_json", text |-> <<>>],
    [outcome |-> "invalid_json_request_error", text |-> <<"E","x","p","e","c","t","i","n","g"," ","v","a","l","u","e">>],
    [outcome |-> "json_not_an_object", text |-> <<>>] }

Stores == {"app", "direct"}

NoResultsYet == [documents |-> <<>>, metadatas |-> <<>>]
NoReport == [kind |-> "none", detail |-> <<>>]
NoSearch == [done |-> FALSE, store |-> "none", hits |-> 0]

VARIABLES giQuery, giContext, giResult, giClean, giClean2,
          goResponse, goSources, goRefs, goAccuracy, goResult,
          chroma, collection, documents_loaded, chat_history,
          pc, user_query, validated_query, results, retrieved_chunks,
          context_texts, response, steps, report, shown,
          uploaded, addCalls, loadedBefore, cleared, lastSearch

giVars == <<giQuery, giContext, giResult, giClean, giClean2>>
goVars == <<goResponse, goSources, goRefs, goAccuracy, goResult>>
storeVars == <<chroma, collection>>
sessionVars == <<documents_loaded, chat_history>>
flowVars == <<pc, user_query, validated_query, results, retrieved_chunks,
              context_texts, response, steps, shown>>
uploadVars == <<uploaded, addCalls, loadedBefore>>
searchVars == <<cleared, lastSearch>>
appVars == <<storeVars, sessionVars, flowVars, report, uploadVars, searchVars>>
vars == <<giVars, goVars, appVars>>

\* the application after RunbookApp.__init__ in a new session, on a
\* persistent directory without a collection
AppInit ==
  /\ chroma = NoCollection
  /\ collection = [s \in Stores |-> FALSE]
  /\ documents_loaded = FALSE
  /\ chat_history = <<>>
  /\ pc = "idle"
  /\ user_query = <<>>
  /\ validated_query = <<>>
  /\ results = NoResultsYet
  /\ retrieved_chunks = <<>>
  /\ context_texts = <<>>
  /\ response = <<>>
  /\ steps = <<>>
  /\ report = NoReport
  /\ shown = <<>>
  /\ uploaded = <<>>
  /\ addCalls = <<>>
  /\ loadedBefore = FALSE
  /\ cleared = FALSE
  /\ lastSearch = NoSearch

\* the guardrail functions of a specification that does not exercise them
InputIdle ==
  /\ giQuery = <<>>
  /\ giContext = NoContext
  /\ giResult = NotRun
  /\ giClean = NotRun
  /\ giClean2 = NotRun

OutputIdle ==
  /\ goResponse = <<>>
  /\ goSources = <<>>
  /\ goRefs = NoReferences
  /\ goAccuracy = "none"
  /\ goResult = "none"

(***************************************************************************)
(* SpecInput: validate_input applied to a query and a context.             *)
(***************************************************************************)
InitInput ==
  /\ AppInit
  /\ giQuery \in Queries
  /\ giContext \in Contexts
  /\ giResult = NotRun
  /\ giClean = NotRun
  /\ giClean2 = NotRun
  /\ OutputIdle

RunValidateInput ==
  /\ giResult = NotRun
  /\ giResult' = validate_input(giQuery, giContext)
  /\ UNCHANGED <<giQuery, giContext, giClean, giClean2, goVars, appVars>>

NextInput == RunValidateInput

SpecInput == InitInput /\ [][NextInput]_vars

(***************************************************************************)
(* SpecSanitize: the injection sanitizer applied once and twice.           *)
(***************************************************************************)
InitSanitize ==
  /\ AppInit
  /\ giQuery \in ShortQueries
  /\ giContext = NoContext
  /\ giResult = NotRun
  /\ giClean = NotRun
  /\ giClean2 = NotRun
  /\ OutputIdle

RunSanitize ==
  /\ giClean = NotRun
  /\ giClean' = Returned(check_injection_patterns(giQuery))
  /\ UNCHANGED <<giQuery, giContext, giResult, giClean2, goVars, appVars>>

RunSanitizeAgain ==
  /\ giClean # NotRun
  /\ giClean2 = NotRun
  /\ giClean2' = Returned(check_injection_patterns(giClean.value))
  /\ UNCHANGED <<giQuery, giContext, giResult, giClean, goVars, appVars>>

NextSanitize == RunSanitize \/ RunSanitizeAgain

SpecSanitize == InitSanitize /\ [][NextSanitize]_vars

(***************************************************************************)
(* SpecOutput: the grounding check and validate_output applied to an       *)
(* answer, a source list and a list of valid references.                   *)
(***************************************************************************)
InitOutput ==
  /\ AppInit
  /\ InputIdle
  /\ goResponse \in Responses
  /\ goSources \in SourceLists
  /\ goRefs \in ReferenceLists
  /\ goAccuracy = "none"
  /\ goResult = "none"

RunValidateAccuracy ==
  /\ goAccuracy = "none"
  /\ goAccuracy' = BoolResult(validate_response_accuracy(goResponse, goSources))
  /\ UNCHANGED <<giVars, goResponse, goSources, goRefs, goResult, appVars>>

RunValidateOutput ==
  /\ goResult = "none"
  /\ goResult' = BoolResult(validate_output(goResponse, goSources, goRefs))
  /\ UNCHANGED <<giVars, goResponse, goSources, goRefs, goAccuracy, appVars>>

NextOutput == RunValidateAccuracy \/ RunValidateOutput

SpecOutput == InitOutput /\ [][NextOutput]_vars

(***************************************************************************)
(* Spec: one session of the application on the persistent collection, and  *)
(* a VectorStore used directly on the same persistent directory.  Every    *)
(* handler of the application runs in a rerun of the script, which builds  *)
(* a new RunbookApp and so a new VectorStore whose self.collection is None;*)
(* the locals of a handler are gone when it returns.                       *)
(***************************************************************************)
AppContext == [none |-> FALSE, dict |-> [documents |-> <<"available">>]]

\* variant: only a query that is too long ends the flow
InputRejected_OnlyTooLong(result) == result.kind = "QueryTooLong"

\* validate_input raised: the except branch of chat_section is taken
InputRejected(result) == result.kind # "ok"

\* the names of the files whose processing raised
RECURSIVE FailedFiles(_)
FailedFiles(files) ==
  IF files = <<>> THEN <<>>
  ELSE (IF process_document(Head(files), FileType(Head(files))).kind = "ok"
        THEN <<>> ELSE <<Head(files).name>>) \o FailedFiles(Tail(files))

NoFlow ==
  /\ user_query' = <<>>
  /\ validated_query' = <<>>
  /\ results' = NoResultsYet
  /\ retrieved_chunks' = <<>>
  /\ context_texts' = <<>>
  /\ response' = <<>>

NoUpload ==
  /\ uploaded' = <<>>
  /\ addCalls' = <<>>
  /\ loadedBefore' = FALSE

\* "Process Documents" in document_upload_section
ProcessDocuments(files) ==
  LET all_chunks == CollectChunks(files)
  IN /\ pc = "idle"
     /\ Len(chroma.stored) + Len(all_chunks) <= MaxStored
     /\ IF all_chunks # <<>>
        THEN /\ chroma' = add_documents(chroma, FALSE, all_chunks)
             /\ collection' = [collection EXCEPT !["app"] = FALSE]
             /\ documents_loaded' = TRUE
             /\ addCalls' = <<all_chunks>>
             /\ cleared' = FALSE
        ELSE /\ collection' = [collection EXCEPT !["app"] = FALSE]
             /\ addCalls' = <<>>
             /\ UNCHANGED <<chroma, documents_loaded, cleared>>
     /\ uploaded' = files
     /\ loadedBefore' = documents_loaded
     /\ report' = [kind |-> "upload", detail |-> FailedFiles(files)]
     /\ shown' = <<>>
     /\ steps' = <<>>
     /\ lastSearch' = NoSearch
     /\ UNCHANGED <<chat_history, pc, user_query, validated_query, results,
                    retrieved_chunks, context_texts, response,
                    giVars, goVars>>

\* variant: Clear Documents leaves documents_loaded as it is
ClearDocuments_KeepsLoaded ==
  /\ pc = "idle"
  /\ chroma' = clear_collection(chroma, FALSE)
  /\ collection' = [collection EXCEPT !["app"] = FALSE]
  /\ documents_loaded' = documents_loaded
  /\ cleared' = TRUE
  /\ report' = [kind |-> "cleared", detail |-> <<>>]
  /\ shown' = <<>>
  /\ steps' = <<>>
  /\ NoUpload
  /\ lastSearch' = NoSearch
  /\ UNCHANGED <<chat_history, pc, user_query, validated_query, results,
                 retrieved_chunks, context_texts, response,
                 giVars, goVars>>

\* "Clear Documents" in setup_sidebar
ClearDocuments ==
  /\ pc = "idle"
  /\ chroma' = clear_collection(chroma, FALSE)
  /\ collection' = [collection EXCEPT !["app"] = FALSE]
  /\ documents_loaded' = FALSE
  /\ cleared' = TRUE
  /\ report' = [kind |-> "cleared", detail |-> <<>>]
  /\ shown' = <<>>
  /\ steps' = <<>>
  /\ NoUpload
  /\ lastSearch' = NoSearch
  /\ UNCHANGED <<chat_history, pc, user_query, validated_query, results,
                 retrieved_chunks, context_texts, response,
                 giVars, goVars>>

\* "Ask Question" in chat_section: input validation
AskQuestion(query) ==
  LET result == validate_input(query, AppContext)
  IN /\ pc = "idle"
     /\ documents_loaded
     /\ query # <<>>
     /\ Len(chat_history) < MaxHistory
     /\ collection' = [collection EXCEPT !["app"] = FALSE]
     /\ steps' = <<"validate_input">>
     /\ shown' = <<>>
     /\ NoUpload
     /\ IF InputRejected(result)
        THEN /\ report' = [kind |-> "question_error", detail |-> result]
             /\ pc' = "idle"
             /\ UNCHANGED <<user_query, validated_query>>
        ELSE /\ report' = NoReport
             /\ user_query' = query
             /\ validated_query' = result.value
             /\ pc' = "search"
     /\ lastSearch' = NoSearch
     /\ UNCHANGED <<chroma, sessionVars, results, retrieved_chunks, context_texts,
                    response, cleared, giVars, goVars>>

\* chat_section: the index search, the no-results test and the assembly of
\* the retrieved chunks and of the context
Search ==
  /\ pc = "search"
  /\ chroma' = search_similar(chroma, collection["app"])
  /\ collection' = [collection EXCEPT !["app"] = TRUE]
  /\ \E res \in QueryResults(chroma'.stored, N_RESULTS) :
       /\ lastSearch' = [done |-> TRUE, store |-> "app", hits |-> Len(res.documents[1])]
       /\ IF NoResults(res)
          THEN /\ report' = [kind |-> "no_relevant_information", detail |-> <<>>]
               /\ steps' = Append(steps, "search")
               /\ pc' = "idle"
               /\ NoFlow
          ELSE /\ results' = res
               /\ retrieved_chunks' = RetrievedChunks(res)
               /\ context_texts' = ContextTexts(RetrievedChunks(res))
               /\ steps' = steps \o <<"search", "assemble">>
               /\ pc' = "generate"
               /\ UNCHANGED <<report, user_query, validated_query, response>>
  /\ UNCHANGED <<sessionVars, shown, uploadVars, cleared, giVars, goVars>>

\* chat_section: the call of the answer generator
Generate(backend) ==
  /\ pc = "generate"
  /\ LET answer == generate_response(backend)
     IN IF answer.kind = "ok"
        THEN /\ response' = answer.value
             /\ pc' = "validate_output"
             /\ UNCHANGED <<report, user_query, validated_query, results,
                            retrieved_chunks, context_texts>>
        ELSE /\ report' = [kind |-> "question_error", detail |-> answer]
             /\ pc' = "idle"
             /\ NoFlow
  /\ steps' = Append(steps, "generate")
  /\ lastSearch' = NoSearch
  /\ collection' = [collection EXCEPT !["app"] = FALSE]
  /\ UNCHANGED <<chroma, sessionVars, shown, uploadVars, cleared,
                 giVars, goVars>>

\* variant: the result of validate_output is ignored
OutputAccepted_Always(answer, sources) == TRUE

\* validate_output accepted the answer
OutputAccepted(answer, sources) == validate_output(answer, sources, NoReferences)

\* chat_section: output validation, display and history
ValidateOutput ==
  /\ pc = "validate_output"
  /\ IF OutputAccepted(response, context_texts)
     THEN /\ shown' = response
          /\ chat_history' =
               Append(chat_history, ChatTurn(user_query, response, retrieved_chunks))
          /\ report' = [kind |-> "success", detail |-> <<>>]
          /\ steps' = steps \o <<"validate_output", "append">>
     ELSE /\ report' = [kind |-> "validation_failed", detail |-> <<>>]
          /\ steps' = Append(steps, "validate_output")
          /\ UNCHANGED <<shown, chat_history>>
  /\ pc' = "idle"
  /\ NoFlow
  /\ lastSearch' = NoSearch
  /\ UNCHANGED <<storeVars, documents_loaded, uploadVars, cleared,
                 giVars, goVars>>

\* VectorStore(...) constructed again on the same persistent directory
DirectNew ==
  /\ pc = "idle"
  /\ collection["direct"]
  /\ collection' = [collection EXCEPT !["direct"] = FALSE]
  /\ lastSearch' = NoSearch
  /\ UNCHANGED <<chroma, sessionVars, flowVars, report, uploadVars, cleared,
                 giVars, goVars>>

\* VectorStore.search_similar called directly
DirectSearch ==
  /\ pc = "idle"
  /\ chroma' = search_similar(chroma, collection["direct"])
  /\ collection' = [collection EXCEPT !["direct"] = TRUE]
  /\ \E res \in QueryResults(chroma'.stored, N_RESULTS) :
       lastSearch' = [done |-> TRUE, store |-> "direct",
                      hits |-> Len(res.documents[1])]
  /\ UNCHANGED <<sessionVars, flowVars, report, uploadVars, cleared, giVars, goVars>>

\* VectorStore.clear_collection called directly
DirectClear ==
  /\ pc = "idle"
  /\ chroma' = clear_collection(chroma, collection["direct"])
  /\ collection' = [collection EXCEPT !["direct"] = FALSE]
  /\ cleared' = TRUE
  /\ lastSearch' = NoSearch
  /\ UNCHANGED <<sessionVars, flowVars, report, uploadVars,
                 giVars, goVars>>

Init == InputIdle /\ OutputIdle /\ AppInit

Next ==
  \/ \E files \in SessionUploads : ProcessDocuments(files)
  \/ ClearDocuments
  \/ \E query \in AppQueries : AskQuestion(query)
  \/ Search
  \/ \E backend \in Backends : Generate(backend)
  \/ ValidateOutput
  \/ DirectNew
  \/ DirectSearch
  \/ DirectClear

Spec == Init /\ [][Next]_vars

\* a VectorStore that is used again holds a collection only while the
\* collection exists (the application's store is used again only within the
\* handler that opened it)
HandlesValid ==
  \A st \in Stores :
    (collection[st] /\ (st = "direct" \/ pc # "idle")) => chroma.exists

(***************************************************************************)
(* SpecUpload: uploads of several files, and Clear Documents.              *)
(***************************************************************************)
NextUpload ==
  \/ \E files \in Uploads : ProcessDocuments(files)
  \/ ClearDocuments

SpecUpload == Init /\ [][NextUpload]_vars

(***************************************************************************)
(* SpecStore: a VectorStore used by a caller that ingests batches of its   *)
(* own chunks and rebuilds typed chunks from a search result, as           *)
(* chat_section does.                                                      *)
(***************************************************************************)
\* chunks of every type, some with metadata that already has the keys
\* chunk_type and chunk_index
DirectChunks ==
  { [type |-> "text", content |-> StrContent(Restart),
     metadata |-> [source |-> "t1"]],
    [type |-> "text", content |-> StrContent(<<"s","t","o","p">>),
     metadata |-> [source |-> "t2", chunk_type |-> "image", chunk_index |-> 7]],
    [type |-> "table", content |-> RowsContent(<< << <<"s","t","e","p">>, Restart >> >>),
     metadata |-> [source |-> "tb", caption |-> <<"T","a","b","l","e"," ","1">>, chunk_index |-> 0]],
    [type |-> "image", content |-> StrContent(<<>>),
     metadata |-> [source |-> "im", caption |-> <<"F","i","g","u","r","e"," ","1">>, chunk_type |-> "text"]],
    [type |-> "figure", content |-> StrContent(<<"d","i","a","g","r","a","m">>),
     metadata |-> [source |-> "fg"]] }

Batches == UNION {[1..n -> DirectChunks] : n \in 1..MaxBatch}

\* add_documents(batch) on a VectorStore of the persistent directory
StoreAdd(batch) ==
  /\ Len(chroma.stored) + Len(batch) <= MaxBatch
  /\ chroma' = add_documents(chroma, collection["direct"], batch)
  /\ collection' = [collection EXCEPT !["direct"] = TRUE]
  /\ addCalls' = <<batch>>
  /\ results' = NoResultsYet
  /\ retrieved_chunks' = <<>>
  /\ UNCHANGED <<sessionVars, pc, user_query, validated_query, context_texts,
                 response, steps, shown, report, uploaded, loadedBefore,
                 searchVars, giVars, goVars>>

\* search_similar, and the chunks rebuilt from its result
StoreSearch ==
  /\ chroma' = search_similar(chroma, collection["direct"])
  /\ collection' = [collection EXCEPT !["direct"] = TRUE]
  /\ \E res \in QueryResults(chroma'.stored, N_RESULTS) :
       /\ results' = res
       /\ retrieved_chunks' = RetrievedChunks(res)
  /\ addCalls' = <<>>
  /\ UNCHANGED <<sessionVars, pc, user_query, validated_query, context_texts,
                 response, steps, shown, report, uploaded, loadedBefore,
                 searchVars, giVars, goVars>>

NextStore ==
  \/ \E batch \in Batches : StoreAdd(batch)
  \/ StoreSearch

SpecStore == Init /\ [][NextStore]_vars

(***************************************************************************)
(* Properties of the input guardrails.                                     *)
(***************************************************************************)
HasKeyword(q) == validate_content_safety(q) # 0

\* C1: every query longer than 2000 characters makes validate_input fail
\* with QueryTooLong and no other error, whatever its content and whatever
\* the documents context; the length is that of the raw query.
C1_TooLongAlwaysQueryTooLong ==
  (giResult # NotRun /\ Len(giQuery) > MAX_QUERY_LENGTH)
    => giResult = Raised("QueryTooLong", <<>>)

\* a query that is too long only before sanitizing, with a denylisted keyword
\* and no documents, was rejected as too long
C1_Witness ==
  /\ giResult.kind = "QueryTooLong"
  /\ Len(giQuery) > MAX_QUERY_LENGTH
  /\ Len(check_injection_patterns(giQuery)) <= MAX_QUERY_LENGTH
  /\ HasKeyword(giQuery)
  /\ ContextDocuments(giContext) = <<>>

\* C2 as stated: every query that contains a denylisted keyword, in any
\* letter-casing and at any position, makes validate_input fail with
\* UnsafeContent naming that keyword.
C2_KeywordAlwaysUnsafeContent ==
  (giResult # NotRun /\ HasKeyword(giQuery))
    => giResult =
         Raised("UnsafeContent", harmful_keywords[validate_content_safety(giQuery)])

\* C2 as amended: every query of at most 2000 characters in which a
\* denylisted keyword, in any letter-casing, is present after the injection
\* sanitizer has run makes validate_input fail with UnsafeContent naming the
\* first such keyword of the denylist, whatever the documents context.
C2_KeywordAfterSanitizerUnsafeContent ==
  LET cleaned == check_injection_patterns(giQuery)
  IN (giResult # NotRun /\ Len(giQuery) <= MAX_QUERY_LENGTH /\ HasKeyword(cleaned))
       => giResult =
            Raised("UnsafeContent", harmful_keywords[validate_content_safety(cleaned)])

\* a query of legal length whose sanitized form holds a keyword in mixed
\* letter-casing was rejected as unsafe although no documents were loaded
C2_Witness ==
  /\ giResult.kind = "UnsafeContent"
  /\ Len(giQuery) <= MAX_QUERY_LENGTH
  /\ IsIn(<<"H","a","c","K">>, check_injection_patterns(giQuery))
  /\ ContextDocuments(giContext) = <<>>

\* C3: the injection sanitizer is idempotent: applying it to its own result
\* changes nothing.
C3_SanitizerIdempotent ==
  giClean2 # NotRun => giClean2.value = giClean.value

(***************************************************************************)
(* Properties of the output guardrails.                                    *)
(***************************************************************************)
LowerWords(s) == SplitWords(LowerStr(s))

SourceLowerWords == UNION {LowerWords(goSources[i]) : i \in 1..Len(goSources)}

\* C4: with a non-empty source list, a non-empty answer whose words all
\* occur in the sources, compared as lower-case word sets, passes the
\* grounding check, and an answer that shares no word with the sources
\* fails it.
C4_GroundingByLowercaseWords ==
  (goAccuracy # "none" /\ goSources # <<>>)
    => /\ (LowerWords(goResponse) # {} /\ LowerWords(goResponse) \subseteq SourceLowerWords)
            => goAccuracy = "true"
       /\ (LowerWords(goResponse) \cap SourceLowerWords = {})
            => goAccuracy = "false"

\* the three conditions of the reference validation on one referenced name
NameWellFormed(name) ==
  name # <<>> /\ \A k \in 1..Len(name) : IsRefChar(name[k])

NameInsideRoot(name) ==
  LET comps == SplitSlash(normpath(name))
  IN ~isabs(name) /\ \A k \in 1..Len(comps) : comps[k] # DotDot

ValidNames == IF goRefs.none THEN {} ELSE {goRefs.list[j] : j \in 1..Len(goRefs.list)}

\* C5: for a grounded answer with at least one bracketed reference,
\* validate_output returns true exactly when every referenced name is well
\* formed, stays inside the root after normalization and is in the valid
\* reference set supplied by the caller (no set and the empty set included).
C5_ReferencesDecideOutput ==
  LET refs == extract_references_from_response(goResponse)
  IN (/\ goResult # "none"
      /\ validate_response_accuracy(goResponse, goSources)
      /\ refs # <<>>)
       => (goResult = "true" <=>
             \A i \in 1..Len(refs) :
               /\ NameWellFormed(refs[i])
               /\ NameInsideRoot(refs[i])
               /\ refs[i] \in ValidNames)

(***************************************************************************)
(* Properties of the vector store, the upload and the question flow.       *)
(***************************************************************************)
\* C6: after clear_collection, whatever ingests and searches came before
\* on the persistent index and whichever instance issued the clear, the next
\* search_similar returns an empty result set.
C6_SearchAfterClearIsEmpty ==
  (lastSearch.done /\ cleared) => lastSearch.hits = 0

\* the outcome of processing one uploaded file
Extracted(file) == process_document(file, FileType(file))

ExtractedOk(file) == Extracted(file).kind = "ok"

\* the chunks of one file as the upload hands them to the index; a file
\* whose extraction raised has none
ChunksOfFile(file) ==
  IF ExtractedOk(file)
  THEN [i \in 1..Len(Extracted(file).value) |->
          UploadChunk(Extracted(file).value[i], file, FileType(file))]
  ELSE <<>>

\* the chunks of the successfully extracted files, in upload order
ChunksOfAll(files) == Flatten([i \in 1..Len(files) |-> ChunksOfFile(files[i])])

FailedNames(files) == {files[i].name : i \in {j \in 1..Len(files) : ~ExtractedOk(files[j])}}

\* C7 as stated: an upload in which at least one document was extracted
\* performs exactly one add_documents call, with the chunks of the extracted
\* documents in upload order; an upload in which no document was extracted
\* performs none and leaves documents_loaded as it was.
C7_OneCallUnlessAllFailed ==
  uploaded # <<>> =>
    IF \E i \in 1..Len(uploaded) : ExtractedOk(uploaded[i])
    THEN addCalls = <<ChunksOfAll(uploaded)>>
    ELSE addCalls = <<>> /\ documents_loaded = loadedBefore

\* C7 as amended: an upload whose extracted documents yield at least one
\* chunk performs exactly one add_documents call, with exactly those chunks
\* in upload order and no chunk of a document whose extraction raised, and
\* sets documents_loaded; an upload that yields no chunk (no document was
\* extracted, or the extracted ones are empty) performs no call and leaves
\* documents_loaded as it was.
C7_OneCallUnlessNoChunk ==
  uploaded # <<>> =>
    IF ChunksOfAll(uploaded) # <<>>
    THEN /\ addCalls = <<ChunksOfAll(uploaded)>>
         /\ documents_loaded
         /\ \A k \in 1..Len(addCalls[1]) :
              addCalls[1][k].metadata.source \notin FailedNames(uploaded)
    ELSE addCalls = <<>> /\ documents_loaded = loadedBefore

\* document 2 of 3 raised and the chunks of documents 1 and 3 were ingested
\* in one call
C7_Witness ==
  /\ uploaded = <<FileA, FileC, FileE>>
  /\ addCalls = <<ChunksOfFile(FileA) \o ChunksOfFile(FileE)>>
  /\ Len(addCalls[1]) = 2
  /\ report = [kind |-> "upload", detail |-> <<"c.docx">>]
  /\ documents_loaded

\* C8: when the search of the question flow returns an empty inner list, the
\* flow reports "no relevant information" and stops before the context is
\* assembled, the answer generator is called or the output is validated.
C8_NoResultsStopsTheFlow ==
  (lastSearch.done /\ lastSearch.store = "app" /\ lastSearch.hits = 0)
    => /\ pc = "idle"
       /\ report.kind = "no_relevant_information"
       /\ steps = <<"validate_input", "search">>

\* the chat turn of an accepted answer, from the state of the flow
ExpectedTurn ==
  [question |-> user_query,
   answer_chunks |->
     <<[type |-> "text", content |-> StrContent(response),
        metadata |-> [source |-> "LLM Answer"]]>>
     \o [i \in 1..Len(results.documents[1]) |->
           [type |-> Get(results.metadatas[1][i], "chunk_type", "text"),
            content |-> StrContent(results.documents[1][i]),
            metadata |-> results.metadatas[1][i]]]]

StepOrder ==
  <<"validate_input", "search", "assemble", "generate", "validate_output", "append">>

InputErrors == {"QueryTooLong", "UnsafeContent", "NoDocumentsAvailable"}

\* C10: a question whose query fails an input check ends with the specific
\* error reported and without search or generation, and a flow goes on to the
\* search only with a query that passed, in its sanitized form; the steps of
\* every flow are an initial part of: input validation, search, generation,
\* output validation, history append.
C10_RejectedInputStopsTheFlow ==
  /\ [](/\ Len(steps) <= Len(StepOrder)
        /\ steps = SubSeq(StepOrder, 1, Len(steps))
        /\ (report.kind = "question_error" /\ report.detail.kind \in InputErrors)
             => (pc = "idle" /\ steps = <<"validate_input">>))
  /\ [][\A query \in AppQueries :
          AskQuestion(query) =>
            LET result == validate_input(query, AppContext)
            IN /\ steps' = <<"validate_input">>
               /\ UNCHANGED <<chroma, chat_history>>
               /\ IF result.kind \in InputErrors
                  THEN /\ pc' = "idle"
                       /\ report' = [kind |-> "question_error", detail |-> result]
                       /\ shown' = <<>>
                  ELSE /\ pc' = "search"
                       /\ user_query' = query
                       /\ validated_query' = result.value]_vars

\* a question with a denylisted keyword was turned down with its error, on
\* an index that holds documents, before any search
C10_Witness ==
  /\ report = [kind |-> "question_error",
               detail |-> Raised("UnsafeContent", harmful_keywords[5])]
  /\ steps = <<"validate_input">>
  /\ pc = "idle"
  /\ chroma.stored # <<>>
  /\ documents_loaded

(***************************************************************************)
(* Properties of the context assembly and of the answer generator.         *)
(***************************************************************************)
\* what a retrieved record is said to contribute to the context
ClaimedContribution(document, metadata) ==
  LET ctype == Get(metadata, "chunk_type", "text")
      caption == Get(metadata, "caption", <<>>)
  IN IF ctype = "text" THEN document
     ELSE IF ctype = "table" THEN caption \o Newline \o document
     ELSE caption \o ImageOmitted

\* C11: the context assembled for the records a search retrieved holds one
\* contribution per record, in retrieval order: the content of a text chunk,
\* the caption of a table chunk followed by its pipe-separated rows, the
\* caption of an image chunk annotated as image-omitted.
C11_ContextHoldsEveryContribution ==
  pc = "generate" =>
    context_texts =
      [i \in 1..Len(results.documents[1]) |->
         ClaimedContribution(results.documents[1][i], results.metadatas[1][i])]

ErrorPrefix == <<"E","r","r","o","r",":"," ">>

IsErrorAnswer(answer) ==
  Len(answer) >= Len(ErrorPrefix) /\ SubSeq(answer, 1, Len(ErrorPrefix)) = ErrorPrefix

\* C12: generate_response never raises on a failure of the backend: whatever
\* the backend does other than answering, the call returns an error text, and
\* the flow goes on to the output validation with that text as the answer.
C12_BackendFailureYieldsErrorAnswer ==
  [][\A backend \in Backends :
       (backend.outcome # "ok" /\ Generate(backend))
         => /\ pc' = "validate_output"
            /\ IsErrorAnswer(response')
            /\ UNCHANGED <<report, chat_history>>]_vars

(***************************************************************************)
(* Properties of the ingestion.                                            *)
(***************************************************************************)
\* the type of the ingested chunk that carries a given source name
TypeOfSource(source) == (CHOOSE chunk \in DirectChunks : chunk.metadata.source = source).type

\* C13: add_documents stores exactly one record per chunk of the batch, after
\* the records the index already holds; the metadata stored for the chunk at
\* position i has chunk_type equal to the type of the chunk and chunk_index
\* equal to i (counted from 0), whatever the input metadata says under these
\* keys, and keeps the other keys; the type rebuilt from a search result is
\* the type of the ingested chunk.
C13_StoredMetadataCarriesTypeAndIndex ==
  /\ [][\A batch \in Batches :
          StoreAdd(batch) =>
            LET before == Len(chroma.stored)
            IN /\ Len(chroma'.stored) = before + Len(batch)
               /\ SubSeq(chroma'.stored, 1, before) = chroma.stored
               /\ \A i \in 1..Len(batch) :
                    LET stored == chroma'.stored[before + i].metadata
                    IN /\ stored.chunk_type = batch[i].type
                       /\ stored.chunk_index = i - 1
                       /\ stored.source = batch[i].metadata.source]_vars
  /\ [](/\ Len(retrieved_chunks) =
             (IF results = NoResultsYet THEN 0 ELSE Len(results.documents[1]))
        /\ \A i \in 1..Len(retrieved_chunks) :
             retrieved_chunks[i].type = TypeOfSource(retrieved_chunks[i].metadata.source))

\* a search returned the two chunks of a batch whose metadata named another
\* type and another index, and their types were rebuilt
C13_Witness ==
  /\ Len(retrieved_chunks) = 2
  /\ {retrieved_chunks[i].metadata.source : i \in 1..2} = {"t2", "im"}
  /\ \E i \in 1..2 : retrieved_chunks[i].type = "image" /\ retrieved_chunks[i].metadata.chunk_index = 1
  /\ \E i \in 1..2 : retrieved_chunks[i].type = "text" /\ retrieved_chunks[i].metadata.chunk_index = 0

(***************************************************************************)
(* Properties of the working query and of validate_input.                  *)
(***************************************************************************)
\* C14: after the injection sanitizer has run, the flow of a question works
\* on the sanitized query: the query handed to the search and to the answer
\* generator is the sanitized one, and so is the question recorded in the
\* chat turn that the flow appends.
C14_SanitizedQueryUsedEverywhere ==
  /\ [](pc \in {"search", "generate", "validate_output"}
          => validated_query = check_injection_patterns(user_query))
  /\ [][chat_history' # chat_history
          => chat_history'[Len(chat_history')].question = validated_query]_vars

\* the earliest check of validate_input that a query and a context fail, in
\* the order 1 length, 2 sanitizer (never fails), 3 content safety of the
\* sanitized query, 4 context availability; 0 when none fails
EarliestFailingCheck(query, context) ==
  IF Len(query) > MAX_QUERY_LENGTH THEN 1
  ELSE IF HasKeyword(check_injection_patterns(query)) THEN 3
  ELSE IF ContextDocuments(context) = <<>> THEN 4
  ELSE 0

ErrorOfCheck == [k \in {0, 1, 3, 4} |->
                   IF k = 0 THEN "ok"
                   ELSE IF k = 1 THEN "QueryTooLong"
                   ELSE IF k = 3 THEN "UnsafeContent" ELSE "NoDocumentsAvailable"]

\* C15: validate_input reports the error of the earliest failing check in
\* the order length, sanitizer, content safety, context availability, and
\* returns only when no check fails; so NoDocumentsAvailable is raised only
\* for queries that pass the length and the content-safety check, and
\* UnsafeContent only for queries of at most 2000 characters.
C15_EarliestFailingCheckReported ==
  giResult # NotRun =>
    /\ giResult.kind = ErrorOfCheck[EarliestFailingCheck(giQuery, giContext)]
    /\ (giResult.kind = "UnsafeContent" => Len(giQuery) <= MAX_QUERY_LENGTH)
    /\ (giResult.kind = "NoDocumentsAvailable"
          => /\ Len(giQuery) <= MAX_QUERY_LENGTH
             /\ ~HasKeyword(check_injection_patterns(giQuery)))

\* a query whose denylisted keyword the sanitizer removed, and that fails
\* the context check only, was reported as lacking documents
C15_Witness ==
  /\ giResult.kind = "NoDocumentsAvailable"
  /\ HasKeyword(giQuery)
  /\ ~HasKeyword(check_injection_patterns(giQuery))
  /\ giContext = [none |-> FALSE, dict |-> [documents |-> <<>>]]

\* s[i..] is t[j..] with only removals applied
RECURSIVE IsSubsequenceFrom(_, _, _, _)
IsSubsequenceFrom(s, t, i, j) ==
  IF i > Len(s) THEN TRUE
  ELSE IF Len(s) - i > Len(t) - j THEN FALSE
  ELSE IF s[i] = t[j] THEN IsSubsequenceFrom(s, t, i + 1, j + 1)
  ELSE IsSubsequenceFrom(s, t, i, j + 1)

\* the length of the longest common prefix of s and t, between lo (known to
\* be common) and hi
RECURSIVE CommonPrefixIn(_, _, _, _)
CommonPrefixIn(s, t, lo, hi) ==
  IF lo >= hi THEN lo
  ELSE LET mid == (lo + hi + 1) \div 2
       IN IF SubSeq(s, lo + 1, mid) = SubSeq(t, lo + 1, mid)
          THEN CommonPrefixIn(s, t, mid, hi)
          ELSE CommonPrefixIn(s, t, lo, mid - 1)

\* leftmost matching: the common prefix is matched first
IsSubsequence(s, t) ==
  LET k == CommonPrefixIn(s, t, 0, IF Len(s) < Len(t) THEN Len(s) ELSE Len(t))
  IN IsSubsequenceFrom(s, t, k + 1, k + 1)

\* C16: when validate_input returns, the returned query has at most 2000
\* characters, holds no denylisted keyword in any letter-casing, is the raw
\* query with only removals applied, and the context named documents.
C16_ReturnedQueryPostcondition ==
  giResult.kind = "ok" =>
    /\ Len(giResult.value) <= MAX_QUERY_LENGTH
    /\ ~HasKeyword(giResult.value)
    /\ IsSubsequence(giResult.value, giQuery)
    /\ ContextDocuments(giContext) # <<>>

\* a query of exactly 2000 characters was returned shorter, with an
\* injection pattern removed
C16_Witness ==
  /\ giResult.kind = "ok"
  /\ Len(giQuery) = MAX_QUERY_LENGTH
  /\ giResult.value # giQuery
  /\ Len(giResult.value) >= PadLen

(***************************************************************************)
(* Properties of the session state.                                        *)
(***************************************************************************)
\* C17: in a session, documents_loaded becomes true only by an ingestion
\* that stores at least one chunk and is false after Clear Documents; the flow
\* of a question starts and runs only while documents_loaded is true; Clear
\* Documents and Process Documents leave the chat history as it is.
C17_LoadStateOfTheSession ==
  /\ [](pc # "idle" => documents_loaded)
  /\ [][/\ (documents_loaded' /\ ~documents_loaded)
             => /\ addCalls' # <<>>
                /\ Len(addCalls'[1]) >= 1
                /\ Len(chroma'.stored) = Len(chroma.stored) + Len(addCalls'[1])
        /\ (steps' # steps /\ steps' # <<>>) => (documents_loaded /\ documents_loaded')
        /\ ClearDocuments => (~documents_loaded' /\ UNCHANGED chat_history)
        /\ (\E files \in SessionUploads : ProcessDocuments(files))
             => UNCHANGED chat_history]_vars

\* Clear Documents after an answered question: nothing is loaded any more
\* and the chat turn is still in the history
C17_Witness ==
  /\ report.kind = "cleared"
  /\ ~documents_loaded
  /\ Len(chat_history) = 1
  /\ chroma.stored # <<>>

====
